---- MODULE Spec2Model ----
(***************************************************************************)
(* Model of the real-time coaching orchestrator of kingly-ai-overlay:      *)
(* the EnhancedOverlayWindow component with its hooks (useAudioCapture,    *)
(* useAICoaching, useSessionManager, useScreenCapture) and the             *)
(* ScreenAnalysisOverlay component with its own hook instances             *)
(* (useScreenCapture, useVisualAnalysis, useSmartFeedback).                *)
(*                                                                         *)
(* One action is one event-loop task: a click, a timer firing or the       *)
(* completion of an awaited call, together with the React render and the   *)
(* effects that the state change causes.  Time is in seconds (the source   *)
(* counts milliseconds; every interval of the source is a whole number of  *)
(* seconds).  Timers are exact: time does not pass while a timer is due.   *)
(***************************************************************************)
EXTENDS Integers, Sequences, FiniteSets, TLC

(* ------------------------------ bounds --------------------------------- *)
\* Date.now() when the components mount
Epoch == 100
\* characters per transcribed word
WordLen == 2
\* sessions created, transcription requests, suggestion requests
MaxSessions == 2
MaxFrags == 3
MaxGen == 2
\* recordings made one after the other in the specification of long transcripts
MaxRecordings == 5
\* concurrent permission prompts / store calls of one kind
MaxPending == 2
\* display-capture grants, frames captured, vision and feedback requests
MaxGrants == 2
MaxFrames == 1
MaxVision == 2
MaxFb == 2
\* analytics records found in the store at mount, and the largest stored count
MaxStored == 2
MaxCount == 2
\* sessions run one after the other in the specification of the debounce
MaxDebounced == 3
\* items of the list one generation request returns
MaxBatch == 2
\* frames and seconds in the specification of a steady screen source
MaxSteady == 4
HorizonSteady == 14
\* events in the feedback history when meeting insights are generated
MaxHistory == 3
\* frames and seconds in the specification of the frame buffer
MaxBuffered == 12
HorizonBuffer == 36
\* analyses made one after the other in the specification of the analysis history
MaxAnalyses == 22
\* feedback events and seconds in the specification of the feedback history cap
MaxEvicting == 52
HorizonEvicting == 53
\* seconds of behaviour in the specification of the coaching hook
HorizonCoaching == 2
\* seconds of behaviour explored by the timed specifications
HorizonSession == 3
HorizonVision == 13
HorizonFeedback == 41

(* ------------------------- program constants --------------------------- *)
SUGGEST_EVERY == 50
MIN_TRANSCRIPT_LEN == 100
DEBOUNCE_S == 2
RECENT_SESSIONS_KEPT == 9
CAPTURE_EVERY_S == 3
FRAMES_KEPT == 10
ANALYSIS_EVERY_S == 10
MIN_ANALYSIS_GAP_S == 8
ANALYSES_KEPT == 20
FEEDBACKS_KEPT == 50
SWEEP_EVERY_S == 5
LOW_TTL_S == 30
RECENT_SHOWN == 3

NULL == -1
SP == 0

VARIABLES
  now,                \* Date.now(), seconds
  \* EnhancedOverlayWindow
  sessionStartTime, showScreenAnalysis, user, debounce,
  \* useSessionManager and the store behind it
  currentSession, recentSessions, nextSessionId, createReqs, endReqs, endSettled,
  dbSessions, dbAnalytics, dbSegments, dbSuggestions,
  \* useAudioCapture
  isRecording, transcription, recorder, micStream, micReqs, audioError,
  transcribeReqs, nextSeq, resolved,
  \* useAICoaching
  suggestions, isGenerating, genReqs, nextGenId, triggerCount,
  genSettled,         \* the last generateSuggestion call that settled, and how
  \* useScreenCapture, one instance per component: "win" and "ovl"
  cap,
  \* ScreenAnalysisOverlay and its useVisualAnalysis
  analyses, isAnalyzing, visionReqs, nextVisionId, lastAnalysisTime,
  analysisTimer, visionLog,
  \* useSmartFeedback of ScreenAnalysisOverlay
  feedbacks, activeFeedback, fbReqs, sweepDue,
  fbReturned,         \* what the last settled generateContextualFeedback call returned
  stats               \* what the last settled getSessionStats call returned

winVars   == <<sessionStartTime, showScreenAnalysis, user, debounce>>
sessVars  == <<currentSession, recentSessions, nextSessionId, createReqs, endReqs, endSettled,
               dbSessions, dbAnalytics, dbSegments, dbSuggestions>>
audioVars == <<isRecording, transcription, recorder, micStream, micReqs, audioError,
               transcribeReqs, nextSeq, resolved>>
coachVars == <<suggestions, isGenerating, genReqs, nextGenId, triggerCount, genSettled>>
visVars   == <<analyses, isAnalyzing, visionReqs, nextVisionId, lastAnalysisTime,
               analysisTimer, visionLog>>
fbVars    == <<feedbacks, activeFeedback, fbReqs, sweepDue, fbReturned>>
vars == <<now, stats, winVars, sessVars, audioVars, coachVars, cap, visVars, fbVars>>

(* ------------------------------ strings -------------------------------- *)
\* A string is a sequence of characters; SP is the blank, every other
\* character is the number of the transcription request that produced it.
Word(c) == [i \in 1..WordLen |-> c]

RECURSIVE Text(_, _)
\* the text of n words separated by single blanks
Text(c, n) == IF n = 0 THEN <<>>
              ELSE IF n = 1 THEN Word(c)
              ELSE Text(c, n - 1) \o <<SP>> \o Word(c)

\* transcript.split(' ').length
SplitLen(s) == 1 + Cardinality({i \in 1..Len(s) : s[i] = SP})

\* context.trim() is not empty
TrimNonEmpty(s) == \E i \in 1..Len(s) : s[i] # SP

\* prev + ' ' + text
AppendFragment(prev, text) == prev \o <<SP>> \o text

\* arr.slice(-k): the last k elements
LastK(s, k) == IF Len(s) <= k THEN s ELSE SubSeq(s, Len(s) - k + 1, Len(s))

\* arr.slice(0, k)
FirstK(s, k) == IF Len(s) <= k THEN s ELSE SubSeq(s, 1, k)

(* --------------------------- initial state ----------------------------- *)
NoSession == [id |-> 0, startTime |-> NULL, status |-> "none",
              endTime |-> NULL, duration |-> NULL]
\* what the last endSession call settled with
NotSettled == [sid |-> 0, outcome |-> "none"]
NoTimer == [due |-> NULL, sid |-> 0, text |-> <<>>]
NoCapture == [isCapturing |-> FALSE, frames |-> <<>>, pending |-> 0, streams |-> 0,
              timers |-> {}, intervalRef |-> NULL, nextTimer |-> 1]
\* a JavaScript number: a finite value, or NaN / Infinity
Num(v) == [finite |-> TRUE, value |-> v]
NaN == [finite |-> FALSE, value |-> 0]
Infinity == [finite |-> FALSE, value |-> 1]
\* Dashboard's initial stats, and the object of getSessionStats' catch branch
ZeroStats ==
  [totalSessions |-> Num(0), totalDuration |-> Num(0),
   avgSuggestions |-> Num(0), successRate |-> Num(0)]
NoFeedback == [id |-> NULL, timestamp |-> NULL, priority |-> "none", dismissed |-> FALSE]

\* the components as mounted, whatever the store holds
Mounted ==
  /\ now = Epoch
  /\ sessionStartTime = NULL /\ showScreenAnalysis = FALSE /\ user = FALSE
  /\ debounce = NoTimer
  /\ currentSession = NoSession /\ recentSessions = <<>> /\ nextSessionId = 1
  /\ createReqs = {} /\ endReqs = {} /\ endSettled = NotSettled
  /\ dbSegments = <<>> /\ dbSuggestions = <<>>
  /\ isRecording = FALSE /\ transcription = <<>> /\ recorder = "none"
  /\ micStream = "none" /\ micReqs = 0 /\ audioError = FALSE
  /\ transcribeReqs = {} /\ nextSeq = 1 /\ resolved = <<>>
  /\ suggestions = <<>> /\ isGenerating = FALSE /\ genReqs = {} /\ nextGenId = 1
  /\ triggerCount = 0
  /\ genSettled = [g |-> 0, outcome |-> "none"]
  /\ cap = [win |-> NoCapture, ovl |-> NoCapture]
  /\ analyses = <<>> /\ isAnalyzing = FALSE /\ visionReqs = {} /\ nextVisionId = 1
  /\ lastAnalysisTime = 0 /\ analysisTimer = NULL /\ visionLog = <<>>
  /\ feedbacks = <<>> /\ activeFeedback = NoFeedback /\ fbReqs = {}
  /\ sweepDue = Epoch + SWEEP_EVERY_S
  /\ fbReturned = [kind |-> "none", value |-> NoFeedback]
  /\ stats = ZeroStats

\* a first mount: the store holds no session yet
Init == Mounted /\ dbSessions = {} /\ dbAnalytics = {}

(* ------------------------- useScreenCapture ---------------------------- *)
\* startCapture up to its await: the display-permission prompt is pending
StartCaptureCall(c) == [c EXCEPT !.pending = @ + 1]

\* stopCapture: clears the interval intervalRef names, setIsCapturing(false)
StopCaptureCall(c) ==
  [c EXCEPT !.timers = {t \in @ : t.id # c.intervalRef}, !.isCapturing = FALSE]

(* ---------------------- ScreenAnalysisOverlay effects ------------------ *)
\* the isActive prop EnhancedOverlayWindow passes down
IsActive(ssa, sst) == ssa /\ sst # NULL

\* "Auto-start screen capture when overlay becomes active": runs when
\* isActive or isCapturing changed
AutoCaptureEffect(c, active, rerun) ==
  IF ~rerun THEN c
  ELSE IF active /\ ~c.isCapturing THEN StartCaptureCall(c)
  ELSE IF ~active /\ c.isCapturing THEN StopCaptureCall(c)
  ELSE c

\* "Analyze screen every 10 seconds": the effect clears its interval and
\* sets a new one whenever one of its dependencies changed
AnalysisIntervalEffect(active, capturing, rerun) ==
  IF ~rerun THEN analysisTimer
  ELSE IF active /\ capturing THEN now + ANALYSIS_EVERY_S
  ELSE NULL

\* The overlay after a task that left the parent's state (ssa, sst) and the
\* overlay's capture state c0 (before its own effects ran); depsChanged says
\* that frames or lastAnalysisTime changed in the task.
OverlaySettles(ssa, sst, c0, depsChanged, winCap) ==
  LET activeOld == IsActive(showScreenAnalysis, sessionStartTime)
      activeNew == IsActive(ssa, sst)
      c1 == AutoCaptureEffect(c0, activeNew,
              activeNew # activeOld \/ c0.isCapturing # cap["ovl"].isCapturing)
  IN /\ c1.pending <= MaxPending
     /\ winCap.pending <= MaxPending
     /\ cap' = [win |-> winCap, ovl |-> c1]
     /\ analysisTimer' = AnalysisIntervalEffect(activeNew, c1.isCapturing,
            \/ activeNew # activeOld
            \/ c1.isCapturing # cap["ovl"].isCapturing
            \/ depsChanged)

(* ----------------------- EnhancedOverlayWindow effects ----------------- *)
\* a slip: the effect leaves a pending timer alone instead of clearing it
DebounceEffectKeepsTimer(t, cs, sst, rerun) ==
  IF ~rerun \/ debounce # NoTimer THEN debounce
  ELSE IF t # <<>> /\ cs # NoSession /\ sst # NULL
       THEN [due |-> now + DEBOUNCE_S, sid |-> cs.id, text |-> t]
       ELSE NoTimer

\* "Save transcription segments to database": the effect clears the pending
\* timer and, while a session runs, sets a new one
DebounceEffect(t, cs, sst, rerun) ==
  IF ~rerun THEN debounce
  ELSE IF t # <<>> /\ cs # NoSession /\ sst # NULL
       THEN [due |-> now + DEBOUNCE_S, sid |-> cs.id, text |-> t]
       ELSE NoTimer

\* "Save AI suggestions to database": saveAISuggestion of the last suggestion
SaveSuggestionEffect(suggs, cs, rerun, ok) ==
  IF rerun /\ ok /\ Len(suggs) > 0 /\ cs # NoSession /\ ~suggs[Len(suggs)].isUsed
  THEN Append(dbSuggestions, [sid |-> cs.id, sugg |-> suggs[Len(suggs)].id,
                              gen |-> suggs[Len(suggs)].gen])
  ELSE dbSuggestions

\* "Auto-generate suggestions based on transcript": whether the effect calls
\* generateSuggestion for the transcript t
SuggestionTrigger(t) ==
  /\ t # <<>>
  /\ Len(t) > MIN_TRANSCRIPT_LEN
  /\ SplitLen(t) % SUGGEST_EVERY = 0

(* --------------------------- useAudioCapture --------------------------- *)
\* stopRecording as the callback closed over isRecording = rec; the recorder
\* stops on stop() or when the tracks of its stream end, and its onstop
\* handler submits the recording for transcription
RecorderAfterStop(rec) ==
  IF recorder = "recording" /\ (rec \/ micStream = "live") THEN "inactive" ELSE recorder

StopRecording(rec) ==
  LET onstop == recorder = "recording" /\ RecorderAfterStop(rec) = "inactive"
  IN /\ recorder' = RecorderAfterStop(rec)
     /\ isRecording' = IF recorder # "none" /\ rec THEN FALSE ELSE isRecording
     /\ micStream' = "none"
     /\ transcribeReqs' = IF onstop THEN transcribeReqs \cup {nextSeq} ELSE transcribeReqs
     /\ nextSeq' = IF onstop THEN nextSeq + 1 ELSE nextSeq
     /\ UNCHANGED <<transcription, micReqs, audioError, resolved>>

\* getUserMedia resolves: the stream and a new recorder replace the refs
MicGranted(maxFrags) ==
  /\ micReqs > 0
  /\ nextSeq <= maxFrags
  /\ micReqs' = micReqs - 1
  /\ micStream' = "live"
  /\ recorder' = "recording"
  /\ isRecording' = TRUE
  /\ UNCHANGED <<transcription, audioError, transcribeReqs, nextSeq, resolved>>
  /\ UNCHANGED <<now, stats, winVars, sessVars, coachVars, cap, visVars, fbVars>>

\* a slip: the catch of startRecording also gives up the session
MicDeniedAbortsSession ==
  /\ micReqs > 0
  /\ micReqs' = micReqs - 1
  /\ audioError' = TRUE
  /\ sessionStartTime' = NULL
  /\ debounce' = NoTimer
  /\ cap' = [cap EXCEPT !["win"] = StopCaptureCall(cap["win"])]
  /\ UNCHANGED <<isRecording, transcription, recorder, micStream, transcribeReqs,
                 nextSeq, resolved>>
  /\ UNCHANGED <<showScreenAnalysis, user>>
  /\ UNCHANGED <<now, stats, sessVars, coachVars, visVars, fbVars>>

\* getUserMedia rejects
MicDenied ==
  /\ micReqs > 0
  /\ micReqs' = micReqs - 1
  /\ audioError' = TRUE
  /\ UNCHANGED <<isRecording, transcription, recorder, micStream, transcribeReqs,
                 nextSeq, resolved>>
  /\ UNCHANGED <<now, stats, winVars, sessVars, coachVars, cap, visVars, fbVars>>

\* transcribeAudio of request seq resolves with a text of w words; the
\* render runs the suggestion trigger and the debounce effect
TranscribeResolve(seq, w) ==
  LET t == AppendFragment(transcription, Text(seq, w))
      fire == SuggestionTrigger(t)
      call == fire /\ TrimNonEmpty(t)
  IN /\ seq \in transcribeReqs
     /\ transcribeReqs' = transcribeReqs \ {seq}
     /\ transcription' = t
     /\ resolved' = Append(resolved, [seq |-> seq, words |-> w, at |-> now])
     /\ triggerCount' = IF fire THEN triggerCount + 1 ELSE triggerCount
     /\ call => nextGenId <= MaxGen
     /\ genReqs' = IF call THEN genReqs \cup {nextGenId} ELSE genReqs
     /\ nextGenId' = IF call THEN nextGenId + 1 ELSE nextGenId
     /\ isGenerating' = IF call THEN TRUE ELSE isGenerating
     /\ debounce' = DebounceEffect(t, currentSession, sessionStartTime, TRUE)
     /\ UNCHANGED <<isRecording, recorder, micStream, micReqs, audioError, nextSeq>>
     /\ UNCHANGED <<suggestions, genSettled, sessionStartTime, showScreenAnalysis, user>>
     /\ UNCHANGED <<now, stats, sessVars, cap, visVars, fbVars>>

\* transcribeAudio rejects
TranscribeReject(seq) ==
  /\ seq \in transcribeReqs
  /\ transcribeReqs' = transcribeReqs \ {seq}
  /\ audioError' = TRUE
  /\ UNCHANGED <<isRecording, transcription, recorder, micStream, micReqs, nextSeq,
                 resolved>>
  /\ UNCHANGED <<now, stats, winVars, sessVars, coachVars, cap, visVars, fbVars>>

(* ---------------------------- useAICoaching ---------------------------- *)
\* the suggestions generateSuggestion makes of a parsed list of n items
Formatted(g, n) ==
  [k \in 1..n |-> [id |-> <<now, k - 1>>, gen |-> g, content |-> "item",
                   type |-> "question", priority |-> "high", isUsed |-> FALSE,
                   timestamp |-> now]]

\* the fallback suggestion wrapping the raw response
Fallback(g) ==
  [id |-> <<now, NULL>>, gen |-> g, content |-> "raw", type |-> "note",
   priority |-> "medium", isUsed |-> FALSE, timestamp |-> now]

\* a generateSuggestion whose fallback replaces the list
SuggestionsAfterReplaces(g, kind, n) ==
  IF kind = "list" THEN suggestions \o Formatted(g, n)
  ELSE <<Fallback(g)>>

\* the suggestion list after the inference call of request g returned:
\* a parsed list of n items ("list") or a text that does not parse ("raw")
SuggestionsAfter(g, kind, n) ==
  IF kind = "list" THEN suggestions \o Formatted(g, n)
  ELSE Append(suggestions, Fallback(g))

\* generateText of request g resolves
GenResolve(g, kind, n, ok) ==
  /\ g \in genReqs
  /\ genReqs' = genReqs \ {g}
  /\ suggestions' = SuggestionsAfter(g, kind, n)
  /\ isGenerating' = FALSE
  /\ genSettled' = [g |-> g, outcome |-> kind]
  /\ dbSuggestions' = SaveSuggestionEffect(suggestions', currentSession, TRUE, ok)
  /\ UNCHANGED <<nextGenId, triggerCount>>
  /\ UNCHANGED <<currentSession, recentSessions, endSettled, nextSessionId, createReqs, endReqs,
                 dbSessions, dbAnalytics, dbSegments>>
  /\ UNCHANGED <<now, stats, winVars, audioVars, cap, visVars, fbVars>>

\* a generateSuggestion whose catch branch empties the list
GenRejectDropsList(g) ==
  /\ g \in genReqs
  /\ genReqs' = genReqs \ {g}
  /\ isGenerating' = FALSE
  /\ genSettled' = [g |-> g, outcome |-> "rejected"]
  /\ suggestions' = <<>>
  /\ UNCHANGED <<nextGenId, triggerCount>>
  /\ UNCHANGED <<now, stats, winVars, sessVars, audioVars, cap, visVars, fbVars>>

\* generateText rejects: logged, finally setIsGenerating(false)
GenReject(g) ==
  /\ g \in genReqs
  /\ genReqs' = genReqs \ {g}
  /\ isGenerating' = FALSE
  /\ genSettled' = [g |-> g, outcome |-> "rejected"]
  /\ UNCHANGED <<suggestions, nextGenId, triggerCount>>
  /\ UNCHANGED <<now, stats, winVars, sessVars, audioVars, cap, visVars, fbVars>>

\* generateSuggestion up to its await, called by the component that uses the
\* hook with a context that is not blank
GenerateSuggestionCall ==
  /\ nextGenId <= MaxGen
  /\ isGenerating' = TRUE
  /\ genReqs' = genReqs \cup {nextGenId}
  /\ nextGenId' = nextGenId + 1
  /\ UNCHANGED <<suggestions, triggerCount, genSettled>>
  /\ UNCHANGED <<now, stats, winVars, sessVars, audioVars, cap, visVars, fbVars>>

\* a markSuggestionUsed that toggles the flag
MarkedUsedToggles(list, id) ==
  [k \in 1..Len(list) |-> IF list[k].id = id THEN [list[k] EXCEPT !.isUsed = ~@]
                                            ELSE list[k]]

\* prev.map(s => s.id === suggestionId ? { ...s, isUsed: true } : s)
MarkedUsed(list, id) ==
  [k \in 1..Len(list) |-> IF list[k].id = id THEN [list[k] EXCEPT !.isUsed = TRUE]
                                            ELSE list[k]]

\* markSuggestionUsed(id), from a click on a suggestion that is shown
MarkSuggestionUsed(id) ==
  /\ \E k \in 1..Len(suggestions) : suggestions[k].id = id
  /\ suggestions' = MarkedUsed(suggestions, id)
  /\ UNCHANGED <<isGenerating, genReqs, nextGenId, triggerCount, genSettled>>
  /\ UNCHANGED <<now, stats, winVars, sessVars, audioVars, cap, visVars, fbVars>>

\* x put into the list t, which is sorted by timestamp, newest first, behind
\* the elements that are not older than x
InsertNewestFirst(x, t) ==
  LET k == Cardinality({i \in 1..Len(t) : t[i].timestamp >= x.timestamp})
  IN SubSeq(t, 1, k) \o <<x>> \o SubSeq(t, k + 1, Len(t))

RECURSIVE SortNewestFirst(_)
\* list.sort((a, b) => b.timestamp - a.timestamp); the sort is stable
SortNewestFirst(list) ==
  IF list = <<>> THEN <<>>
  ELSE InsertNewestFirst(list[Len(list)], SortNewestFirst(SubSeq(list, 1, Len(list) - 1)))

\* what getRecentSuggestions(limit) returns
RecentSuggestions(list, limit) == FirstK(SortNewestFirst(list), limit)

\* getRecentSuggestions(limit), called while the component renders:
\* Array.prototype.sort sorts the array of the state in place, and
\* slice(0, limit) copies the front of it for the caller
GetRecentSuggestions(limit) ==
  /\ suggestions' = SortNewestFirst(suggestions)
  /\ UNCHANGED <<isGenerating, genReqs, nextGenId, triggerCount, genSettled>>
  /\ UNCHANGED <<now, stats, winVars, sessVars, audioVars, cap, visVars, fbVars>>

(* --------------------------- useSessionManager ------------------------- *)
SessionRecord(id, t0) ==
  [id |-> id, startTime |-> t0, status |-> "active", endTime |-> NULL, duration |-> NULL]

\* a slip: the duration measured when the store call returns
FinalizedAtReturn(sess, t1) ==
  [sess EXCEPT !.endTime = t1, !.duration = now - sess.startTime, !.status = "completed"]

\* endSession's finalized session: duration = now - startTime at the call
Finalized(sess, t1) ==
  [sess EXCEPT !.endTime = t1, !.duration = t1 - sess.startTime, !.status = "completed"]

\* blink.db.sessions.update(sessionId, {endTime, duration, status})
DbUpdated(db, sid, sess, t1) ==
  {IF s.id = sid
     THEN [s EXCEPT !.endTime = t1, !.duration = t1 - sess.startTime, !.status = "completed"]
     ELSE s : s \in db}

(* ------------------ useSessionManager: getSessionStats ----------------- *)
\* x || d: the default replaces every falsy count (null, undefined, 0)
Or(x, d) == IF x = NULL \/ x = 0 THEN d ELSE x

\* a slip: x ?? 1, the default replaces a missing count only
TotalOrOneNullish(a) == IF a.totalSuggestions = NULL THEN 1 ELSE a.totalSuggestions

\* (a.totalSuggestions || 1)
TotalOrOne(a) == Or(a.totalSuggestions, 1)

RECURSIVE SumTotalOrZero(_)
\* analytics.reduce((sum, a) => sum + (a.totalSuggestions || 0), 0)
SumTotalOrZero(S) ==
  IF S = {} THEN 0
  ELSE LET a == CHOOSE x \in S : TRUE
       IN Or(a.totalSuggestions, 0) + SumTotalOrZero(S \ {a})

RECURSIVE SumUsedOrZero(_)
\* analytics.reduce((sum, a) => sum + (a.suggestionsUsed || 0), 0)
SumUsedOrZero(S) ==
  IF S = {} THEN 0
  ELSE LET a == CHOOSE x \in S : TRUE
       IN Or(a.suggestionsUsed, 0) + SumUsedOrZero(S \ {a})

RECURSIVE SumTotalOrOne(_)
\* analytics.reduce((sum, a) => sum + (a.totalSuggestions || 1), 0)
SumTotalOrOne(S) ==
  IF S = {} THEN 0
  ELSE LET a == CHOOSE x \in S : TRUE
       IN TotalOrOne(a) + SumTotalOrOne(S \ {a})

RECURSIVE SumDuration(_)
\* sessions.reduce((sum, session) => sum + (session.duration || 0), 0)
SumDuration(S) ==
  IF S = {} THEN 0
  ELSE LET s == CHOOSE x \in S : TRUE
       IN Or(s.duration, 0) + SumDuration(S \ {s})

\* Math.round(a / b * scale) for a, b >= 0: 0 / 0 is NaN and a / 0 is Infinity,
\* which Math.round and the later division by 10 leave as they are; the value
\* of avgSuggestions is kept in tenths
RoundedRatio(a, b, scale) ==
  IF b = 0 THEN (IF a = 0 THEN NaN ELSE Infinity)
  ELSE Num((2 * a * scale + b) \div (2 * b))

\* the object getSessionStats returns from the two lists
SessionStats(sessions, analytics) ==
  LET n == Cardinality(analytics)
  IN [totalSessions |-> Num(Cardinality(sessions)),
      totalDuration |-> Num(SumDuration(sessions)),
      avgSuggestions |-> IF n > 0 THEN RoundedRatio(SumTotalOrZero(analytics), n, 10)
                         ELSE Num(0),
      successRate |-> IF n > 0
                      THEN RoundedRatio(SumUsedOrZero(analytics),
                                        SumTotalOrOne(analytics), 100)
                      ELSE Num(0)]

\* Dashboard: getSessionStats(user.id).then(setStats), both lists resolve
GetSessionStatsResolve ==
  /\ stats' = SessionStats(dbSessions, dbAnalytics)
  /\ UNCHANGED <<now, winVars, sessVars, audioVars, coachVars, cap, visVars, fbVars>>

\* a list call rejects: logged, the zero object is returned
GetSessionStatsReject ==
  /\ stats' = ZeroStats
  /\ UNCHANGED <<now, winVars, sessVars, audioVars, coachVars, cap, visVars, fbVars>>

\* updateSessionAnalytics(sessionId, {suggestionsUsed, totalSuggestions}): a
\* field left undefined (NULL here) is not written
UpdateSessionAnalytics(sid, used, total) ==
  /\ dbAnalytics' =
       {IF a.sid = sid
          THEN [a EXCEPT !.suggestionsUsed = IF used = NULL THEN @ ELSE used,
                         !.totalSuggestions = IF total = NULL THEN @ ELSE total]
          ELSE a : a \in dbAnalytics}
  /\ UNCHANGED <<currentSession, recentSessions, endSettled, nextSessionId, createReqs, endReqs,
                 dbSessions, dbSegments, dbSuggestions>>
  /\ UNCHANGED <<now, stats, winVars, audioVars, coachVars, cap, visVars, fbVars>>

(* ------------------------- EnhancedOverlayWindow ----------------------- *)
\* blink.auth.onAuthStateChanged reports the signed-in user (App unmounts the
\* window when there is none)
AuthStateChanged ==
  /\ ~user
  /\ user' = TRUE
  /\ UNCHANGED <<sessionStartTime, showScreenAnalysis, debounce>>
  /\ UNCHANGED <<now, stats, sessVars, audioVars, coachVars, cap, visVars, fbVars>>

\* "Start Session" clicked: startSession up to the first await of createSession
StartSessionClick(maxSessions) ==
  /\ sessionStartTime = NULL
  /\ user
  /\ nextSessionId <= maxSessions
  /\ Cardinality(createReqs) < MaxPending
  /\ createReqs' = createReqs \cup
       {[id |-> nextSessionId, t0 |-> now, stage |-> 1, ssa |-> showScreenAnalysis]}
  /\ nextSessionId' = nextSessionId + 1
  /\ UNCHANGED <<currentSession, recentSessions, endSettled, endReqs, dbSessions, dbAnalytics,
                 dbSegments, dbSuggestions>>
  /\ UNCHANGED <<now, stats, winVars, audioVars, coachVars, cap, visVars, fbVars>>

\* blink.db.sessions.create resolves; createSession awaits the analytics record
CreateSessionStored(r) ==
  /\ r \in createReqs /\ r.stage = 1
  /\ dbSessions' = dbSessions \cup {SessionRecord(r.id, r.t0)}
  /\ createReqs' = (createReqs \ {r}) \cup {[r EXCEPT !.stage = 2]}
  /\ UNCHANGED <<currentSession, recentSessions, endSettled, nextSessionId, endReqs, dbAnalytics,
                 dbSegments, dbSuggestions>>
  /\ UNCHANGED <<now, stats, winVars, audioVars, coachVars, cap, visVars, fbVars>>

\* either store write of createSession rejects: rethrown, logged by startSession
CreateSessionFailed(r) ==
  /\ r \in createReqs
  /\ createReqs' = createReqs \ {r}
  /\ UNCHANGED <<currentSession, recentSessions, endSettled, nextSessionId, endReqs, dbSessions,
                 dbAnalytics, dbSegments, dbSuggestions>>
  /\ UNCHANGED <<now, stats, winVars, audioVars, coachVars, cap, visVars, fbVars>>

\* blink.db.sessionAnalytics.create resolves: setCurrentSession, and
\* startSession goes on: setSessionStartTime, startRecording, startCapture
CreateSessionDone(r, ok) ==
  LET cs == SessionRecord(r.id, r.t0)
  IN /\ r \in createReqs /\ r.stage = 2
     /\ createReqs' = createReqs \ {r}
     /\ dbAnalytics' = dbAnalytics \cup {[sid |-> r.id, suggestionsUsed |-> 0,
                                           totalSuggestions |-> 0]}
     /\ currentSession' = cs
     /\ sessionStartTime' = now
     /\ micReqs < MaxPending
     /\ micReqs' = micReqs + 1
     /\ audioError' = FALSE
     /\ debounce' = DebounceEffect(transcription, cs, now, TRUE)
     /\ dbSuggestions' = SaveSuggestionEffect(suggestions, cs, TRUE, ok)
     /\ OverlaySettles(showScreenAnalysis, now, cap["ovl"], FALSE,
                       IF r.ssa THEN StartCaptureCall(cap["win"]) ELSE cap["win"])
     /\ UNCHANGED <<recentSessions, endSettled, nextSessionId, endReqs, dbSessions, dbSegments>>
     /\ UNCHANGED <<isRecording, transcription, recorder, micStream, transcribeReqs,
                    nextSeq, resolved>>
     /\ UNCHANGED <<showScreenAnalysis, user>>
     /\ UNCHANGED <<now, stats, coachVars, fbVars>>
     /\ UNCHANGED <<analyses, isAnalyzing, visionReqs, nextVisionId, lastAnalysisTime,
                    visionLog>>

\* stopSession after its await: setSessionStartTime(null), stopRecording()
\* and stopCapture() of the render in which "Stop Session" was clicked
StopSessionTail(rec, cs, csChanged, ok) ==
  /\ sessionStartTime' = NULL
  /\ StopRecording(rec)
  /\ debounce' = DebounceEffect(transcription, cs, NULL,
                                csChanged \/ sessionStartTime # NULL)
  /\ dbSuggestions' = SaveSuggestionEffect(suggestions, cs, csChanged, ok)
  /\ OverlaySettles(showScreenAnalysis, NULL, cap["ovl"], FALSE,
                    StopCaptureCall(cap["win"]))
  /\ UNCHANGED <<showScreenAnalysis, user>>
  /\ UNCHANGED <<now, stats, coachVars, fbVars>>
  /\ UNCHANGED <<analyses, isAnalyzing, visionReqs, nextVisionId, lastAnalysisTime,
                 visionLog>>

\* "Stop Session" clicked: stopSession up to the await of endSession
StopSessionClick ==
  /\ sessionStartTime # NULL
  /\ currentSession # NoSession
  /\ Cardinality(endReqs) < MaxPending
  /\ endReqs' = endReqs \cup
       {[sid |-> currentSession.id, t1 |-> now, sess |-> currentSession,
         rec |-> isRecording]}
  /\ UNCHANGED <<currentSession, recentSessions, endSettled, nextSessionId, createReqs, dbSessions,
                 dbAnalytics, dbSegments, dbSuggestions>>
  /\ UNCHANGED <<now, stats, winVars, audioVars, coachVars, cap, visVars, fbVars>>

\* blink.db.sessions.update resolves: endSession finalizes, stopSession goes on
EndSessionResolve(r, ok) ==
  /\ r \in endReqs
  /\ endReqs' = endReqs \ {r}
  /\ dbSessions' = DbUpdated(dbSessions, r.sid, r.sess, r.t1)
  /\ currentSession' = Finalized(r.sess, r.t1)
  /\ recentSessions' = <<Finalized(r.sess, r.t1)>> \o FirstK(recentSessions, RECENT_SESSIONS_KEPT)
  /\ endSettled' = [sid |-> r.sid, outcome |-> "resolved"]
  /\ StopSessionTail(r.rec, Finalized(r.sess, r.t1), TRUE, ok)
  /\ UNCHANGED <<nextSessionId, createReqs, dbAnalytics, dbSegments>>

\* a slip: endSession finalizes the session before the store update settles
EndSessionRejectFinalizes(r) ==
  /\ r \in endReqs
  /\ endReqs' = endReqs \ {r}
  /\ endSettled' = [sid |-> r.sid, outcome |-> "rejected"]
  /\ currentSession' = Finalized(r.sess, r.t1)
  /\ recentSessions' = <<Finalized(r.sess, r.t1)>> \o FirstK(recentSessions, RECENT_SESSIONS_KEPT)
  /\ StopSessionTail(r.rec, Finalized(r.sess, r.t1), TRUE, TRUE)
  /\ UNCHANGED <<nextSessionId, createReqs, dbSessions, dbAnalytics, dbSegments>>

\* blink.db.sessions.update rejects: rethrown by endSession, logged by stopSession
EndSessionReject(r) ==
  /\ r \in endReqs
  /\ endReqs' = endReqs \ {r}
  /\ endSettled' = [sid |-> r.sid, outcome |-> "rejected"]
  /\ StopSessionTail(r.rec, currentSession, FALSE, TRUE)
  /\ UNCHANGED <<currentSession, recentSessions, nextSessionId, createReqs, dbSessions,
                 dbAnalytics, dbSegments>>

\* the debounce timer fires: saveTranscriptionSegment (a failed write is logged)
SaveTranscript(ok) ==
  /\ debounce.due # NULL /\ debounce.due <= now
  /\ dbSegments' = IF ok THEN Append(dbSegments, [sid |-> debounce.sid, text |-> debounce.text])
                   ELSE dbSegments
  /\ debounce' = NoTimer
  /\ UNCHANGED <<sessionStartTime, showScreenAnalysis, user>>
  /\ UNCHANGED <<currentSession, recentSessions, endSettled, nextSessionId, createReqs, endReqs,
                 dbSessions, dbAnalytics, dbSuggestions>>
  /\ UNCHANGED <<now, stats, audioVars, coachVars, cap, visVars, fbVars>>

(* ------------------- useScreenCapture: tasks of instance i ------------- *)
\* the capture state of instance i becomes c0; the overlay's effects follow
CaptureSettles(i, c0, framesChanged) ==
  IF i = "ovl"
  THEN OverlaySettles(showScreenAnalysis, sessionStartTime, c0, framesChanged, cap["win"])
  ELSE /\ c0.pending <= MaxPending
       /\ cap' = [cap EXCEPT !["win"] = c0]
       /\ UNCHANGED analysisTimer

\* getDisplayMedia resolves: setIsCapturing(true), a new 3 s interval in intervalRef
CaptureAfterGrant(c) ==
  [c EXCEPT !.pending = @ - 1, !.streams = @ + 1, !.isCapturing = TRUE,
            !.timers = @ \cup {[id |-> c.nextTimer, due |-> now + CAPTURE_EVERY_S]},
            !.intervalRef = c.nextTimer, !.nextTimer = @ + 1]

\* the interval callback: a frame is appended when the video has a size
CaptureAfterFire(c, t, ready) ==
  [c EXCEPT !.timers = (@ \ {t}) \cup {[t EXCEPT !.due = now + CAPTURE_EVERY_S]},
            !.frames = IF ready THEN Append(LastK(@, FRAMES_KEPT), now) ELSE @]

restOfOverlay == <<analyses, isAnalyzing, visionReqs, nextVisionId, lastAnalysisTime,
                   visionLog>>

DisplayGranted(i) ==
  /\ cap[i].pending > 0
  /\ cap[i].nextTimer <= MaxGrants
  /\ CaptureSettles(i, CaptureAfterGrant(cap[i]), FALSE)
  /\ UNCHANGED <<now, stats, winVars, sessVars, audioVars, coachVars, restOfOverlay, fbVars>>

\* getDisplayMedia rejects: logged, setIsCapturing(false)
DisplayDenied(i) ==
  /\ cap[i].pending > 0
  /\ CaptureSettles(i, [cap[i] EXCEPT !.pending = @ - 1, !.isCapturing = FALSE], FALSE)
  /\ UNCHANGED <<now, stats, winVars, sessVars, audioVars, coachVars, restOfOverlay, fbVars>>

\* the 3 s capture interval t of instance i fires
CaptureFire(i, t, ready, maxFrames) ==
  /\ t \in cap[i].timers /\ t.due <= now
  /\ ready => Len(cap[i].frames) < maxFrames
  /\ CaptureSettles(i, CaptureAfterFire(cap[i], t, ready), ready)
  /\ UNCHANGED <<now, stats, winVars, sessVars, audioVars, coachVars, restOfOverlay, fbVars>>

\* the video track of a stream ends: its listener calls stopCapture
StreamEnded(i) ==
  /\ cap[i].streams > 0
  /\ CaptureSettles(i, StopCaptureCall([cap[i] EXCEPT !.streams = @ - 1]), FALSE)
  /\ UNCHANGED <<now, stats, winVars, sessVars, audioVars, coachVars, restOfOverlay, fbVars>>

\* the Eye button of EnhancedOverlayWindow: toggleScreenAnalysis
ToggleScreenAnalysis ==
  /\ showScreenAnalysis' = ~showScreenAnalysis
  /\ OverlaySettles(~showScreenAnalysis, sessionStartTime, cap["ovl"], FALSE,
       IF ~showScreenAnalysis /\ sessionStartTime # NULL
       THEN StartCaptureCall(cap["win"]) ELSE StopCaptureCall(cap["win"]))
  /\ UNCHANGED <<sessionStartTime, user, debounce>>
  /\ UNCHANGED <<now, stats, sessVars, audioVars, coachVars, restOfOverlay, fbVars>>

(* ----------------- useVisualAnalysis / ScreenAnalysisOverlay ----------- *)
\* the frame getLatestCapture returns, NULL for undefined
LatestCapture == IF cap["ovl"].frames = <<>> THEN NULL
                 ELSE cap["ovl"].frames[Len(cap["ovl"].frames)]

\* the interval callback's test before it calls analyzeScreen
TickAnalyzes == LatestCapture # NULL /\ now - lastAnalysisTime > MIN_ANALYSIS_GAP_S

\* analyzeScreen up to its await, called from the tick or from "Analyze Now"
AnalyzeScreenCall(by, maxVision) ==
  /\ nextVisionId <= maxVision
  /\ isAnalyzing' = TRUE
  /\ visionReqs' = visionReqs \cup {[id |-> nextVisionId, by |-> by]}
  /\ nextVisionId' = nextVisionId + 1
  /\ visionLog' = Append(visionLog, [ev |-> "issued", by |-> by, at |-> now])

\* the 10 s analysis interval fires
AnalysisTick ==
  /\ analysisTimer # NULL /\ analysisTimer <= now
  /\ analysisTimer' = now + ANALYSIS_EVERY_S
  /\ IF TickAnalyzes THEN AnalyzeScreenCall("tick", MaxVision)
     ELSE UNCHANGED <<isAnalyzing, visionReqs, nextVisionId, visionLog>>
  /\ UNCHANGED <<analyses, lastAnalysisTime>>
  /\ UNCHANGED <<now, stats, winVars, sessVars, audioVars, coachVars, cap, fbVars>>

\* "Analyze Now" clicked; the button is disabled while isAnalyzing or without a frame
AnalyzeNowClicked(maxVision) ==
  /\ IsActive(showScreenAnalysis, sessionStartTime)
  /\ ~isAnalyzing /\ LatestCapture # NULL
  /\ AnalyzeScreenCall("now", maxVision)
  /\ UNCHANGED <<analyses, lastAnalysisTime, analysisTimer>>
  /\ UNCHANGED <<now, stats, winVars, sessVars, audioVars, coachVars, cap, fbVars>>

AnalyzeNowClick == AnalyzeNowClicked(MaxVision)

\* the VisualAnalysis analyzeScreen builds: from the parsed response with
\* urgency u ("json"), from the parse fallback ("raw"), or the placeholder of
\* the catch branch ("failed")
Analysis(outcome, u) ==
  [id |-> now, timestamp |-> now, outcome |-> outcome,
   urgency |-> IF outcome = "json" THEN u ELSE "low"]

\* setAnalyses(prev => [...prev.slice(-20), analysis])
AnalysesAfter(a) == Append(LastK(analyses, ANALYSES_KEPT), a)

\* analyzeScreen of request r after its await, on every outcome: the analysis
\* is appended, finally setIsAnalyzing(false); the tick then sets
\* lastAnalysisTime; the overlay's effect asks for contextual feedback
VisionCompletes(r, outcome, u) ==
  /\ r \in visionReqs
  /\ visionReqs' = visionReqs \ {r}
  /\ analyses' = AnalysesAfter(Analysis(outcome, u))
  /\ isAnalyzing' = FALSE
  /\ lastAnalysisTime' = IF r.by = "tick" THEN now ELSE lastAnalysisTime
  /\ visionLog' = Append(visionLog, [ev |-> "done", by |-> r.by, at |-> now])
  /\ analysisTimer' = AnalysisIntervalEffect(IsActive(showScreenAnalysis, sessionStartTime),
                         cap["ovl"].isCapturing, lastAnalysisTime' # lastAnalysisTime)
  /\ Cardinality(fbReqs) < MaxFb
  /\ fbReqs' = fbReqs \cup {[id |-> r.id]}
  /\ UNCHANGED <<nextVisionId, feedbacks, activeFeedback, sweepDue, fbReturned>>
  /\ UNCHANGED <<now, stats, winVars, sessVars, audioVars, coachVars, cap>>

\* generateText of analyzeScreen resolves
VisionResolve(r, outcome, u) ==
  /\ outcome \in {"json", "raw"}
  /\ VisionCompletes(r, outcome, u)

\* a slip: a catch branch that logs the error and appends nothing
VisionRejectSilent(r) ==
  /\ r \in visionReqs
  /\ visionReqs' = visionReqs \ {r}
  /\ isAnalyzing' = FALSE
  /\ lastAnalysisTime' = IF r.by = "tick" THEN now ELSE lastAnalysisTime
  /\ visionLog' = Append(visionLog, [ev |-> "done", by |-> r.by, at |-> now])
  /\ analysisTimer' = AnalysisIntervalEffect(IsActive(showScreenAnalysis, sessionStartTime),
                         cap["ovl"].isCapturing, lastAnalysisTime' # lastAnalysisTime)
  /\ UNCHANGED <<analyses, nextVisionId, fbVars>>
  /\ UNCHANGED <<now, stats, winVars, sessVars, audioVars, coachVars, cap>>

\* generateText of analyzeScreen rejects
VisionReject(r) == VisionCompletes(r, "failed", "low")

(* --------------------------- useSmartFeedback -------------------------- *)
Feedback(p) == [id |-> now, timestamp |-> now, priority |-> p, dismissed |-> FALSE]

\* setFeedbacks(prev => [...prev.slice(-50), feedback])
FeedbacksAfter(fb) == Append(LastK(feedbacks, FEEDBACKS_KEPT), fb)

\* generateContextualFeedback called by a user of the hook, up to its await
FeedbackCalled(maxFb) ==
  /\ Len(feedbacks) + Cardinality(fbReqs) < maxFb
  /\ fbReqs' = fbReqs \cup {[id |-> CHOOSE i \in 0..MaxFb : [id |-> i] \notin fbReqs]}
  /\ UNCHANGED <<feedbacks, activeFeedback, sweepDue, fbReturned>>
  /\ UNCHANGED <<now, stats, winVars, sessVars, audioVars, coachVars, cap, visVars>>

FeedbackCall == FeedbackCalled(MaxFb)

\* a slip: an occupied active slot keeps its event (first write wins)
FeedbackResolveKeepsActive(f, kind, p) ==
  /\ f \in fbReqs
  /\ fbReqs' = fbReqs \ {f}
  /\ feedbacks' = IF kind = "json" THEN FeedbacksAfter(Feedback(p)) ELSE feedbacks
  /\ activeFeedback' = IF kind = "json" /\ p \in {"high", "urgent"}
                            /\ activeFeedback = NoFeedback
                       THEN Feedback(p) ELSE activeFeedback
  /\ fbReturned' = [kind |-> kind, value |-> IF kind = "json" THEN Feedback(p) ELSE NoFeedback]
  /\ UNCHANGED sweepDue
  /\ UNCHANGED <<now, stats, winVars, sessVars, audioVars, coachVars, cap, visVars>>

\* a slip: every new event becomes the active one, whatever its priority
FeedbackResolveAlwaysActive(f, kind, p) ==
  /\ f \in fbReqs
  /\ fbReqs' = fbReqs \ {f}
  /\ feedbacks' = IF kind = "json" THEN FeedbacksAfter(Feedback(p)) ELSE feedbacks
  /\ activeFeedback' = IF kind = "json" THEN Feedback(p) ELSE activeFeedback
  /\ fbReturned' = [kind |-> kind, value |-> IF kind = "json" THEN Feedback(p) ELSE NoFeedback]
  /\ UNCHANGED sweepDue
  /\ UNCHANGED <<now, stats, winVars, sessVars, audioVars, coachVars, cap, visVars>>

\* generateText of generateContextualFeedback resolves with a response that
\* parses to priority p ("json") or does not parse ("raw": return null)
FeedbackResolve(f, kind, p) ==
  /\ f \in fbReqs
  /\ fbReqs' = fbReqs \ {f}
  /\ feedbacks' = IF kind = "json" THEN FeedbacksAfter(Feedback(p)) ELSE feedbacks
  /\ activeFeedback' = IF kind = "json" /\ p \in {"high", "urgent"}
                       THEN Feedback(p) ELSE activeFeedback
  /\ fbReturned' = [kind |-> kind, value |-> IF kind = "json" THEN Feedback(p) ELSE NoFeedback]
  /\ UNCHANGED sweepDue
  /\ UNCHANGED <<now, stats, winVars, sessVars, audioVars, coachVars, cap, visVars>>

\* a slip: a failed call answered with a fabricated fallback feedback
FeedbackRejectFabricates(f) ==
  /\ f \in fbReqs
  /\ fbReqs' = fbReqs \ {f}
  /\ feedbacks' = FeedbacksAfter(Feedback("medium"))
  /\ fbReturned' = [kind |-> "failed", value |-> Feedback("medium")]
  /\ UNCHANGED <<activeFeedback, sweepDue>>
  /\ UNCHANGED <<now, stats, winVars, sessVars, audioVars, coachVars, cap, visVars>>

\* generateText rejects: logged, return null
FeedbackReject(f) ==
  /\ f \in fbReqs
  /\ fbReqs' = fbReqs \ {f}
  /\ fbReturned' = [kind |-> "failed", value |-> NoFeedback]
  /\ UNCHANGED <<feedbacks, activeFeedback, sweepDue>>
  /\ UNCHANGED <<now, stats, winVars, sessVars, audioVars, coachVars, cap, visVars>>

\* the ids `insight_${Date.now()}_talk`, `..._listen` and `..._topics`: numbers
\* below zero, one for each clock value and suffix, which no
\* `feedback_${Date.now()}` id (the clock value) equals
InsightId(suffix) ==
  0 - (3 * now + (CASE suffix = "talk" -> 0 [] suffix = "listen" -> 1 [] OTHER -> 2))

\* an insight of generateMeetingInsights; the object has no dismissed field,
\* which reads as false
Insight(suffix, p) ==
  [id |-> InsightId(suffix), timestamp |-> now, priority |-> p, dismissed |-> FALSE]

\* the insights for a talk ratio above 0.7 ("talk"), below 0.2 ("listen") or
\* in between ("even"), with or without key topics
Insights(ratio, topics) ==
  (IF ratio = "talk" THEN <<Insight("talk", "medium")>>
   ELSE IF ratio = "listen" THEN <<Insight("listen", "medium")>>
   ELSE <<>>)
  \o (IF topics THEN <<Insight("topics", "low")>> ELSE <<>>)

\* generateMeetingInsights: setFeedbacks(prev => [...prev.slice(-50), ...insights])
MeetingInsights(ratio, topics) ==
  /\ Len(feedbacks) + Cardinality(fbReqs) + Len(Insights(ratio, topics)) <= MaxHistory
  /\ feedbacks' = LastK(feedbacks, FEEDBACKS_KEPT) \o Insights(ratio, topics)
  /\ UNCHANGED <<activeFeedback, fbReqs, sweepDue, fbReturned>>
  /\ UNCHANGED <<now, stats, winVars, sessVars, audioVars, coachVars, cap, visVars>>

\* a slip: dismissing flips the flag, so a second dismissal brings the event back
DismissedToggles(fs, id) ==
  [k \in 1..Len(fs) |-> IF fs[k].id = id THEN [fs[k] EXCEPT !.dismissed = ~@] ELSE fs[k]]

\* prev.map(f => f.id === feedbackId ? {...f, dismissed: true} : f)
Dismissed(fs, id) ==
  [k \in 1..Len(fs) |-> IF fs[k].id = id THEN [fs[k] EXCEPT !.dismissed = TRUE] ELSE fs[k]]

\* a slip: the active slot is cleared whichever event is dismissed
DismissFeedbackClearsSlot(id) ==
  /\ feedbacks' = Dismissed(feedbacks, id)
  /\ activeFeedback' = NoFeedback
  /\ UNCHANGED <<fbReqs, sweepDue, fbReturned>>
  /\ UNCHANGED <<now, stats, winVars, sessVars, audioVars, coachVars, cap, visVars>>

\* dismissFeedback(id)
DismissFeedback(id) ==
  /\ feedbacks' = Dismissed(feedbacks, id)
  /\ activeFeedback' = IF activeFeedback.id = id THEN NoFeedback ELSE activeFeedback
  /\ UNCHANGED <<fbReqs, sweepDue, fbReturned>>
  /\ UNCHANGED <<now, stats, winVars, sessVars, audioVars, coachVars, cap, visVars>>

\* the X button on the active feedback card
DismissClick ==
  /\ activeFeedback # NoFeedback
  /\ DismissFeedback(activeFeedback.id)

\* a slip: a feedback of exactly 30 s is swept as well
SweepDismissesAt30(f) == f.priority = "low" /\ now - f.timestamp >= LOW_TTL_S

\* whether the sweep dismisses feedback f
SweepDismisses(f) == f.priority = "low" /\ now - f.timestamp > LOW_TTL_S

\* the sweep's map over the feedback history
Swept(fs) ==
  [k \in 1..Len(fs) |-> IF SweepDismisses(fs[k]) THEN [fs[k] EXCEPT !.dismissed = TRUE]
                        ELSE fs[k]]

\* the 5 s auto-dismiss interval fires
Sweep ==
  /\ sweepDue <= now
  /\ sweepDue' = now + SWEEP_EVERY_S
  /\ feedbacks' = Swept(feedbacks)
  /\ UNCHANGED <<activeFeedback, fbReqs, fbReturned>>
  /\ UNCHANGED <<now, stats, winVars, sessVars, audioVars, coachVars, cap, visVars>>

(* -------------------------------- time --------------------------------- *)
\* some timer is due: its callback runs before time passes
TimerDue ==
  \/ debounce.due # NULL /\ debounce.due <= now
  \/ sweepDue <= now
  \/ analysisTimer # NULL /\ analysisTimer <= now
  \/ \E i \in {"win", "ovl"} : \E t \in cap[i].timers : t.due <= now

\* a second passes
Tick(horizon) ==
  /\ ~TimerDue
  /\ now < Epoch + horizon
  /\ now' = now + 1
  /\ UNCHANGED <<stats, winVars, sessVars, audioVars, coachVars, cap, visVars, fbVars>>

(* ============================ specifications =========================== *)
\* The session life cycle of EnhancedOverlayWindow: sessions, recording,
\* transcription and the transcript effects; transcribed texts are short.
SessionWords == {1, 2}

NextSession ==
  \/ AuthStateChanged
  \/ StartSessionClick(MaxSessions)
  \/ \E r \in createReqs : CreateSessionStored(r)
  \/ \E r \in createReqs : CreateSessionFailed(r)
  \/ \E r \in createReqs, ok \in BOOLEAN : CreateSessionDone(r, ok)
  \/ StopSessionClick
  \/ \E r \in endReqs, ok \in BOOLEAN : EndSessionResolve(r, ok)
  \/ \E r \in endReqs : EndSessionReject(r)
  \/ MicGranted(MaxFrags)
  \/ MicDenied
  \/ \E q \in transcribeReqs, w \in SessionWords : TranscribeResolve(q, w)
  \/ \E q \in transcribeReqs : TranscribeReject(q)

SpecSession == Init /\ [][NextSession]_vars

\* Stopping a session in real time: the 2 s debounce timer of the transcript
\* write against the store calls of createSession and endSession.
StopWords == {1}

NextStop ==
  \/ AuthStateChanged
  \/ StartSessionClick(MaxSessions)
  \/ \E r \in createReqs : CreateSessionStored(r)
  \/ \E r \in createReqs : CreateSessionFailed(r)
  \/ \E r \in createReqs, ok \in BOOLEAN : CreateSessionDone(r, ok)
  \/ StopSessionClick
  \/ \E r \in endReqs, ok \in BOOLEAN : EndSessionResolve(r, ok)
  \/ \E r \in endReqs : EndSessionReject(r)
  \/ MicGranted(MaxFrags)
  \/ \E q \in transcribeReqs, w \in StopWords : TranscribeResolve(q, w)
  \/ \E ok \in BOOLEAN : SaveTranscript(ok)
  \/ Tick(HorizonSession)

SpecStop == Init /\ [][NextStop]_vars

\* The transcript growing over several recordings, one session after the
\* other, with texts long enough for the suggestion trigger: 10, 49 or 50
\* words per transcription.
LongWords == {10, 49, 50}

NextWords ==
  \/ AuthStateChanged
  \/ createReqs = {} /\ transcribeReqs = {} /\ StartSessionClick(MaxRecordings)
  \/ \E r \in createReqs : CreateSessionStored(r)
  \/ \E r \in createReqs : CreateSessionDone(r, TRUE)
  \/ endReqs = {} /\ StopSessionClick
  \/ \E r \in endReqs : EndSessionResolve(r, TRUE)
  \/ MicGranted(MaxRecordings)
  \/ \E q \in transcribeReqs, w \in LongWords : TranscribeResolve(q, w)
  \/ \E g \in genReqs : GenResolve(g, "list", 1, TRUE)
  \/ \E g \in genReqs : GenReject(g)

SpecWords == Init /\ [][NextWords]_vars

\* The screen-analysis overlay in real time: one session with the overlay
\* shown, the overlay's capture, the 10 s analysis tick, "Analyze Now" and
\* inference calls that may take many seconds.  The session is started when
\* the window mounts: time passes once it runs.
Urgencies == {"low", "high"}

NextVision ==
  \/ AuthStateChanged
  \/ ~showScreenAnalysis /\ ToggleScreenAnalysis
  \/ createReqs = {} /\ StartSessionClick(1)
  \/ \E r \in createReqs : CreateSessionStored(r)
  \/ \E r \in createReqs : CreateSessionDone(r, TRUE)
  \/ DisplayGranted("ovl")
  \/ \E t \in cap["ovl"].timers, ready \in BOOLEAN : CaptureFire("ovl", t, ready, MaxFrames)
  \/ AnalysisTick
  \/ AnalyzeNowClick
  \/ \E r \in visionReqs, o \in {"json", "raw"}, u \in Urgencies : VisionResolve(r, o, u)
  \/ \E r \in visionReqs : VisionReject(r)
  \/ \E f \in fbReqs : FeedbackReject(f)
  \/ Sweep
  \/ sessionStartTime # NULL /\ Tick(HorizonVision)

SpecVision == Init /\ [][NextVision]_vars

\* useSmartFeedback on its own, in real time: feedback is asked for by the
\* component that uses the hook, calls may overlap, and the 5 s sweep runs
\* from the mount.
Priorities == {"low", "high", "urgent"}

NextFeedback ==
  \/ FeedbackCall
  \/ \E f \in fbReqs, p \in Priorities : FeedbackResolve(f, "json", p)
  \/ \E f \in fbReqs : FeedbackResolve(f, "raw", "low")
  \/ \E f \in fbReqs : FeedbackReject(f)
  \/ DismissClick
  \/ \E k \in 1..Len(feedbacks) : DismissFeedback(feedbacks[k].id)
  \/ Sweep
  \/ Tick(HorizonFeedback)

SpecFeedback == Init /\ [][NextFeedback]_vars

\* the dashboard over a store left by earlier visits: up to MaxStored sessions,
\* each analytics record with counts that are missing or in 0..MaxCount
Counts == {NULL} \cup (0..MaxCount)
StoredAnalytics(n) ==
  {{[sid |-> i, suggestionsUsed |-> f[i][1], totalSuggestions |-> f[i][2]] : i \in 1..n}
     : f \in [1..n -> Counts \X Counts]}
StoredSessions(n) ==
  {Finalized(SessionRecord(i, Epoch - 2 * i), Epoch - i) : i \in 1..n}
InitStats ==
  /\ Mounted
  /\ \E n \in 0..MaxStored :
       /\ dbAnalytics \in StoredAnalytics(n)
       /\ dbSessions = StoredSessions(n)
NextStats ==
  \/ GetSessionStatsResolve
  \/ GetSessionStatsReject
  \/ \E a \in dbAnalytics, u \in Counts, t \in Counts : UpdateSessionAnalytics(a.sid, u, t)
SpecStats == InitStats /\ [][NextStats]_vars

\* The transcript write in real time over sessions run one after the other:
\* a recording is transcribed once its session has stopped, so its text reaches
\* the debounce effect while a later session runs.
NextDebounce ==
  \/ AuthStateChanged
  \/ createReqs = {} /\ endReqs = {} /\ StartSessionClick(MaxDebounced)
  \/ \E r \in createReqs : CreateSessionStored(r)
  \/ \E r \in createReqs : CreateSessionDone(r, TRUE)
  \/ endReqs = {} /\ StopSessionClick
  \/ \E r \in endReqs : EndSessionResolve(r, TRUE)
  \/ \E r \in endReqs : EndSessionReject(r)
  \/ MicGranted(MaxDebounced)
  \/ \E q \in transcribeReqs, w \in StopWords : TranscribeResolve(q, w)
  \/ \E ok \in BOOLEAN : SaveTranscript(ok)
  \/ Tick(HorizonSession)

SpecDebounce == Init /\ [][NextDebounce]_vars

\* Suggestions and their store writes: the recording of the first session is
\* transcribed while the second one runs, 49 words make the word count of the
\* transcript 50 and 50 more make it 100, and the inference call returns a
\* list of up to MaxBatch items or a text that does not parse.
SuggestWords == {49, 50}

NextSuggest ==
  \/ AuthStateChanged
  \/ createReqs = {} /\ endReqs = {} /\ StartSessionClick(MaxSessions)
  \/ \E r \in createReqs : CreateSessionStored(r)
  \/ \E r \in createReqs : CreateSessionDone(r, TRUE)
  \/ endReqs = {} /\ StopSessionClick
  \/ \E r \in endReqs : EndSessionResolve(r, TRUE)
  \/ \E r \in endReqs : EndSessionReject(r)
  \/ MicGranted(MaxFrags)
  \/ \E q \in transcribeReqs, w \in SuggestWords : TranscribeResolve(q, w)
  \/ \E g \in genReqs, n \in 0..MaxBatch : GenResolve(g, "list", n, TRUE)
  \/ \E g \in genReqs : GenResolve(g, "raw", 1, TRUE)
  \/ \E g \in genReqs : GenReject(g)

SpecSuggest == Init /\ [][NextSuggest]_vars

\* The capture sources over the session life cycle: the window's and the
\* overlay's screen capture and the microphone, with permission prompts that
\* are granted or denied and display streams that the user ends.
NextCapture ==
  \/ AuthStateChanged
  \/ ToggleScreenAnalysis
  \/ createReqs = {} /\ endReqs = {} /\ StartSessionClick(MaxSessions)
  \/ \E r \in createReqs : CreateSessionStored(r)
  \/ \E r \in createReqs : CreateSessionDone(r, TRUE)
  \/ endReqs = {} /\ StopSessionClick
  \/ \E r \in endReqs : EndSessionResolve(r, TRUE)
  \/ \E i \in {"win", "ovl"} : DisplayGranted(i)
  \/ \E i \in {"win", "ovl"} : DisplayDenied(i)
  \/ \E i \in {"win", "ovl"} : StreamEnded(i)
  \/ MicGranted(MaxFrags)
  \/ MicDenied

SpecCapture == Init /\ [][NextCapture]_vars

\* The overlay in front of a screen source that delivers frames: the capture
\* interval fires every 3 s, with a frame when the video has a size, next to
\* the 10 s analysis interval; nobody clicks "Analyze Now".
NextSteady ==
  \/ AuthStateChanged
  \/ ~showScreenAnalysis /\ ToggleScreenAnalysis
  \/ createReqs = {} /\ StartSessionClick(1)
  \/ \E r \in createReqs : CreateSessionStored(r)
  \/ \E r \in createReqs : CreateSessionDone(r, TRUE)
  \/ DisplayGranted("ovl")
  \/ \E t \in cap["ovl"].timers, ready \in BOOLEAN : CaptureFire("ovl", t, ready, MaxSteady)
  \/ AnalysisTick
  \/ \E r \in visionReqs : VisionResolve(r, "json", "low")
  \/ \E f \in fbReqs : FeedbackReject(f)
  \/ Sweep
  \/ sessionStartTime # NULL /\ Tick(HorizonSteady)

SpecSteady == Init /\ [][NextSteady]_vars

\* useSmartFeedback with every priority and with meeting insights, as the
\* component that uses the hook may call it; no time passes.
AllPriorities == {"low", "medium", "high", "urgent"}

NextInsights ==
  \/ FeedbackCall
  \/ \E f \in fbReqs, p \in AllPriorities : FeedbackResolve(f, "json", p)
  \/ \E f \in fbReqs : FeedbackResolve(f, "raw", "low")
  \/ \E f \in fbReqs : FeedbackReject(f)
  \/ \E ratio \in {"talk", "listen", "even"}, topics \in BOOLEAN :
        MeetingInsights(ratio, topics)
  \/ \E k \in 1..Len(feedbacks) : DismissFeedback(feedbacks[k].id)

SpecInsights == Init /\ [][NextInsights]_vars

\* The frame buffer of the window's own screen capture over a long session:
\* screen analysis is switched on while the session runs, the display is
\* granted to the window's capture, and its interval fires every 3 s.
NextBuffer ==
  \/ AuthStateChanged
  \/ createReqs = {} /\ StartSessionClick(1)
  \/ \E r \in createReqs : CreateSessionStored(r)
  \/ \E r \in createReqs : CreateSessionDone(r, TRUE)
  \/ ~showScreenAnalysis /\ sessionStartTime # NULL /\ ToggleScreenAnalysis
  \/ DisplayGranted("win")
  \/ \E t \in cap["win"].timers, ready \in BOOLEAN : CaptureFire("win", t, ready, MaxBuffered)
  \/ Sweep
  \/ cap["win"].isCapturing /\ Tick(HorizonBuffer)

SpecBuffer == Init /\ [][NextBuffer]_vars

\* The analysis history over many analyses: with one frame captured, "Analyze
\* Now" is clicked again and again; the calls succeed until the history is
\* nearly full and then succeed, fail to parse or fail.
NextHistory ==
  \/ AuthStateChanged
  \/ ~showScreenAnalysis /\ ToggleScreenAnalysis
  \/ createReqs = {} /\ StartSessionClick(1)
  \/ \E r \in createReqs : CreateSessionStored(r)
  \/ \E r \in createReqs : CreateSessionDone(r, TRUE)
  \/ DisplayGranted("ovl")
  \/ \E t \in cap["ovl"].timers : CaptureFire("ovl", t, TRUE, MaxFrames)
  \/ AnalyzeNowClicked(MaxAnalyses)
  \/ \E r \in visionReqs : VisionResolve(r, "json", "low")
  \/ Len(analyses) >= ANALYSES_KEPT - 1 /\ \E r \in visionReqs : VisionResolve(r, "raw", "low")
  \/ Len(analyses) >= ANALYSES_KEPT - 1 /\ \E r \in visionReqs : VisionReject(r)
  \/ \E f \in fbReqs : FeedbackReject(f)
  \/ cap["ovl"].isCapturing /\ cap["ovl"].frames = <<>> /\ Tick(HorizonSession)

SpecHistory == Init /\ [][NextHistory]_vars

\* useAICoaching on its own, in real time: the component that uses the hook
\* asks for suggestions, shows the most recent ones when it renders and marks
\* the one the user clicks; calls may overlap.
NextCoaching ==
  \/ GenerateSuggestionCall
  \/ \E g \in genReqs, n \in 1..MaxBatch : GenResolve(g, "list", n, TRUE)
  \/ \E g \in genReqs : GenResolve(g, "raw", 1, TRUE)
  \/ \E g \in genReqs : GenReject(g)
  \/ \E k \in 1..Len(suggestions) : MarkSuggestionUsed(suggestions[k].id)
  \/ GetRecentSuggestions(RECENT_SHOWN)
  \/ Tick(HorizonCoaching)

SpecCoaching == Init /\ [][NextCoaching]_vars

\* The feedback history filling up past its cap: generateContextualFeedback
\* is called again once the call before has returned, each response arrives
\* a second after the one before, the first one is of high priority and the
\* later ones of low priority; the 5 s sweep runs throughout.
LastFeedbackIsOlder ==
  IF feedbacks = <<>> THEN TRUE ELSE feedbacks[Len(feedbacks)].timestamp < now

NextEvicting ==
  \/ fbReqs = {} /\ FeedbackCalled(MaxEvicting)
  \/ /\ LastFeedbackIsOlder
     /\ \E f \in fbReqs :
          FeedbackResolve(f, "json", IF feedbacks = <<>> THEN "high" ELSE "low")
  \/ Sweep
  \/ fbReqs # {} /\ ~LastFeedbackIsOlder /\ Tick(HorizonEvicting)

SpecEvicting == Init /\ [][NextEvicting]_vars

(* =============================== claims ================================ *)
\* the words transcription request k resolved with, NULL when it has not
WordsOf(k) == IF \E j \in 1..Len(resolved) : resolved[j].seq = k
              THEN (CHOOSE r \in {resolved[j] : j \in 1..Len(resolved)} : r.seq = k).words
              ELSE NULL

RECURSIVE InSubmissionOrder(_)
\* the fragments of the resolved requests 1..k, concatenated in submission order
InSubmissionOrder(k) ==
  IF k = 0 THEN <<>>
  ELSE IF WordsOf(k) = NULL THEN InSubmissionOrder(k - 1)
  ELSE AppendFragment(InSubmissionOrder(k - 1), Text(k, WordsOf(k)))

\* C1: once every submitted transcription request has returned, the running
\* transcript is the concatenation of the returned fragments in the order the
\* requests were submitted, whatever the order in which they resolved.
C1_SubmissionOrder ==
  transcribeReqs = {} => transcription = InSubmissionOrder(nextSeq - 1)

\* C4: while no session runs, no task changes the transcript, the suggestion
\* list, the analysis history, the feedback history or the active feedback:
\* an AI result that returns after the stop is discarded.
C4_DiscardedAfterStop ==
  [][(sessionStartTime = NULL /\ sessionStartTime' = NULL)
       => /\ transcription' = transcription
          /\ suggestions' = suggestions
          /\ analyses' = analyses
          /\ Len(feedbacks') = Len(feedbacks)
          /\ activeFeedback' = activeFeedback]_vars

\* the store marks session sid completed
Completed(db, sid) == \E s \in db : s.id = sid /\ s.status = "completed"

\* the store holds a transcript segment of session sid with this text
Written(segs, sid, text) ==
  \E k \in 1..Len(segs) : segs[k].sid = sid /\ segs[k].text = text

\* C5: when the store marks a session completed while a transcript write of
\* that session waits in the debounce window, the waiting transcript is in the
\* store by then (the pending write is flushed, not dropped).
C5_FlushBeforeCompleted ==
  [][(/\ debounce.due # NULL
      /\ ~Completed(dbSessions, debounce.sid)
      /\ Completed(dbSessions', debounce.sid))
       => Written(dbSegments', debounce.sid, debounce.text)]_vars

\* C6: a completed session record has status completed and duration =
\* end time - start time, where the start time is the time of creation and the
\* end time is a time at which the session was being stopped; the in-memory
\* current session, once completed, carries the duration and status of its
\* store record.
C6_DurationIsEndMinusStart ==
  /\ \A s \in dbSessions : s.status = "completed" =>
        /\ s.endTime # NULL /\ s.startTime <= s.endTime
        /\ s.duration = s.endTime - s.startTime
  /\ currentSession.status = "completed" =>
        /\ currentSession.duration = currentSession.endTime - currentSession.startTime
        /\ currentSession \in dbSessions

\* C6 witness: a session stopped some seconds after its creation is completed
\* in the store and in memory
C6_Witness ==
  /\ currentSession.status = "completed"
  /\ currentSession.duration = 2
  /\ currentSession \in dbSessions
  /\ endReqs = {}

\* C2: at most one suggestion-generation request is in flight
C2_SingleFlightSuggestion == Cardinality(genReqs) <= 1

\* C8: while every transcription brings 10 words, suggestion generation has
\* been triggered once per multiple of 50 words the transcript has reached
C8_TriggersAtCrossings ==
  (\A j \in 1..Len(resolved) : resolved[j].words = 10)
     => triggerCount = (10 * Len(resolved)) \div SUGGEST_EVERY

\* the positions of the analysis requests issued so far in the overlay's history
Issued == {k \in 1..Len(visionLog) : visionLog[k].ev = "issued"}

\* the positions of the analysis attempts that have returned
Done == {k \in 1..Len(visionLog) : visionLog[k].ev = "done"}

\* C3: at most one vision-analysis request is in flight
C3_SingleFlightVision == Cardinality(visionReqs) <= 1

\* C9: no vision-analysis request is issued less than 8 s after an earlier
\* one, whichever path (analysis tick or "Analyze Now") called analyzeScreen
C9_MinGapEveryPath ==
  \A i, j \in Issued :
     i < j => visionLog[j].at - visionLog[i].at >= MIN_ANALYSIS_GAP_S

\* C10: once an analysis attempt has returned, successfully or not, the
\* analysis history is not empty, so getLatestAnalysis() is defined; the
\* analysis appended for a failed call is a placeholder of urgency "low".
C10_PlaceholderOnFailure ==
  /\ Done # {} => analyses # <<>>
  /\ \A k \in 1..Len(analyses) :
        analyses[k].outcome = "failed" => analyses[k].urgency = "low"

\* C10 witness: the first attempt failed and left the placeholder as the
\* latest analysis
C10_Witness ==
  /\ Cardinality(Done) = 1
  /\ Len(analyses) = 1
  /\ analyses[1].outcome = "failed"
  /\ analyses[1].urgency = "low"

\* feedback k of the history is of low priority
Low(k) == feedbacks[k].priority = "low"

\* the age of feedback k of the history
Age(k) == now - feedbacks[k].timestamp

\* C7 as stated: a low-priority feedback is marked dismissed before it is
\* 35 s old, whatever the phase of the sweep timer
C7_DismissedBefore35 ==
  \A k \in 1..Len(feedbacks) :
     Low(k) /\ Age(k) >= LOW_TTL_S + SWEEP_EVERY_S => feedbacks[k].dismissed

\* C7: a low-priority feedback in the history is marked dismissed by the
\* first sweep that finds it more than 30 s old: the sweep dismisses it at an
\* age in (30 s, 35 s], never at 30 s or less, and none is left undismissed
\* beyond 35 s.
C7_SweptAfter30Within35 ==
  /\ [](\A k \in 1..Len(feedbacks) :
          Low(k) /\ Age(k) > LOW_TTL_S + SWEEP_EVERY_S => feedbacks[k].dismissed)
  /\ [][sweepDue' # sweepDue =>
          \A k \in 1..Len(feedbacks) :
             Low(k) /\ ~feedbacks[k].dismissed /\ feedbacks'[k].dismissed
                => Age(k) > LOW_TTL_S /\ Age(k) <= LOW_TTL_S + SWEEP_EVERY_S]_vars

\* C7 witness: a low-priority feedback created on the phase of the sweep has
\* just been dismissed by the sweep at the age of 35 s
C7_Witness ==
  /\ sweepDue = now + SWEEP_EVERY_S
  /\ \E k \in 1..Len(feedbacks) :
        Low(k) /\ feedbacks[k].dismissed /\ Age(k) = LOW_TTL_S + SWEEP_EVERY_S

\* a generateContextualFeedback call settles in this step
FeedbackSettles == Cardinality(fbReqs') < Cardinality(fbReqs)

\* C11: a generateContextualFeedback call whose response does not parse, or
\* whose inference call fails, returns null and leaves the feedback history
\* and the active feedback slot as they were.
C11_SilentSkip ==
  [][(FeedbackSettles /\ fbReturned'.kind \in {"raw", "failed"})
       => /\ fbReturned'.value = NoFeedback
          /\ feedbacks' = feedbacks
          /\ activeFeedback' = activeFeedback]_vars

\* C11 witness: the last call failed to parse or failed, after earlier calls
\* had filled the history and the active slot
C11_Witness ==
  /\ fbReturned.kind \in {"raw", "failed"}
  /\ fbReturned.value = NoFeedback
  /\ feedbacks # <<>>
  /\ activeFeedback # NoFeedback

\* the positions of the high and urgent events of the feedback history
Pressing == {k \in 1..Len(feedbacks) : feedbacks[k].priority \in {"high", "urgent"}}

\* the position of the high or urgent event applied last
LastPressing == CHOOSE k \in Pressing : \A j \in Pressing : j <= k

\* C12: the active slot is empty or holds one high or urgent event that is
\* not dismissed; while the high or urgent event applied last has not been
\* dismissed the slot holds that event, whatever the order in which the
\* generations completed, and once it has been dismissed the slot is empty.
C12_LastWriteWins ==
  /\ activeFeedback # NoFeedback =>
        /\ activeFeedback.priority \in {"high", "urgent"}
        /\ ~activeFeedback.dismissed
  /\ Pressing = {} => activeFeedback = NoFeedback
  /\ Pressing # {} =>
        activeFeedback = IF feedbacks[LastPressing].dismissed THEN NoFeedback
                         ELSE feedbacks[LastPressing]

\* C12 witness: a second high or urgent event has superseded an earlier one
\* that is still not dismissed
C12_Witness ==
  /\ Cardinality(Pressing) >= 2
  /\ activeFeedback = feedbacks[LastPressing]
  /\ \E k \in Pressing : k < LastPressing /\ ~feedbacks[k].dismissed
                            /\ feedbacks[k] # feedbacks[LastPressing]

\* this step is a dismissFeedback call: the history or the slot changes while
\* no call settles, no time passes and the sweep does not run
DismissStep ==
  /\ fbReqs' = fbReqs /\ sweepDue' = sweepDue /\ now' = now
  /\ feedbacks' # feedbacks \/ activeFeedback' # activeFeedback

\* the step is the dismissal of the events with this id: they are marked
\* dismissed, every other event is as it was, and the slot is emptied
\* exactly when it held an event with this id
DismissalOf(id) ==
  /\ Len(feedbacks') = Len(feedbacks)
  /\ \A k \in 1..Len(feedbacks) :
        feedbacks'[k] = IF feedbacks[k].id = id
                        THEN [feedbacks[k] EXCEPT !.dismissed = TRUE] ELSE feedbacks[k]
  /\ activeFeedback.id = id => activeFeedback' = NoFeedback
  /\ activeFeedback.id # id => activeFeedback' = activeFeedback

\* C13: dismissFeedback(id) marks the event with that id dismissed; it empties
\* the active slot when the slot holds that event and leaves the slot
\* unchanged when it holds another one.
C13_DismissClearsOwnSlot ==
  [][DismissStep => \E k \in 1..Len(feedbacks) : DismissalOf(feedbacks[k].id)]_vars

\* C13 witness: an event other than the active one has been dismissed and
\* the slot still holds the active event
C13_Witness ==
  /\ activeFeedback # NoFeedback
  /\ \E k \in 1..Len(feedbacks) :
        feedbacks[k].dismissed /\ feedbacks[k].id # activeFeedback.id
                               /\ feedbacks[k].priority # "low"

\* C13 second case: the active event has been dismissed and the slot is empty
C13_Cleared ==
  /\ activeFeedback = NoFeedback
  /\ \E k \in 1..Len(feedbacks) :
        feedbacks[k].dismissed /\ feedbacks[k].priority \in {"high", "urgent"}

FiniteNonNegative(x) == x.finite /\ x.value >= 0

\* C14: whatever analytics records the store holds (none, records with no
\* count, records whose totalSuggestions are all 0), the successRate and the
\* avgSuggestions that getSessionStats returns are finite numbers >= 0.
C14_StatsFinite ==
  FiniteNonNegative(stats.successRate) /\ FiniteNonNegative(stats.avgSuggestions)

\* C14 witness: statistics computed over records whose totalSuggestions are
\* all 0: the success rate is 0
C14_Witness ==
  /\ dbAnalytics # {}
  /\ stats.totalSessions = Num(Cardinality(dbSessions))
  /\ \A a \in dbAnalytics : a.totalSuggestions = 0
  /\ stats = SessionStats(dbSessions, dbAnalytics)
  /\ stats.successRate = Num(0)

\* when the transcript last changed
LastChange == IF resolved = <<>> THEN NULL ELSE resolved[Len(resolved)].at

\* C15: the transcript write is a trailing-edge debounce.  A pending write
\* always carries the latest transcript and is due no earlier than 2 s after
\* the last transcript change (a change cancels and reschedules it); a write
\* happens only during an active session, for the current session, once 2 s
\* have passed without a change, it carries the latest transcript, and no
\* transcript is written twice for a session.
C15_TrailingDebounce ==
  /\ [](debounce # NoTimer =>
          /\ debounce.text = transcription
          /\ debounce.due >= LastChange + DEBOUNCE_S)
  /\ [][dbSegments' # dbSegments =>
          /\ Len(dbSegments') = Len(dbSegments) + 1
          /\ sessionStartTime # NULL
          /\ LET w == dbSegments'[Len(dbSegments')]
             IN /\ w.sid = currentSession.id
                /\ w.text = transcription
                /\ now - LastChange >= DEBOUNCE_S
                /\ \A k \in 1..Len(dbSegments) : dbSegments[k] # w]_vars

\* C15 witness: a write was pending in the running session (set when the
\* session started with a transcript, or at a change) when the transcript
\* changed less than 2 s later; the one write of this session, 2 s after that
\* change, carries the changed transcript
C15_Witness ==
  /\ sessionStartTime # NULL
  /\ Len(resolved) >= 2
  /\ LastChange > sessionStartTime
  /\ LastChange < sessionStartTime + DEBOUNCE_S
  /\ LastChange < resolved[Len(resolved) - 1].at + DEBOUNCE_S
  /\ now = LastChange + DEBOUNCE_S
  /\ {k \in 1..Len(dbSegments) : dbSegments[k].sid = currentSession.id} # {}
  /\ \A k \in 1..Len(dbSegments) :
        dbSegments[k].sid = currentSession.id => dbSegments[k].text = transcription

\* the store holds a record of suggestion x written for session sid
Stored(db, x, sid) ==
  \E j \in 1..Len(db) : db[j].sugg = x.id /\ db[j].gen = x.gen /\ db[j].sid = sid

\* C16: every suggestion added to the list while a session is active is in
\* the store once the step that added it is over, every item of a batch
\* included.
C16_EveryItemWritten ==
  [][(sessionStartTime # NULL /\ currentSession.status = "active") =>
        \A k \in (Len(suggestions) + 1)..Len(suggestions') :
           Stored(dbSuggestions', suggestions'[k], currentSession.id)]_vars

\* C17: no suggestion has more than one record in the store.
C17_WrittenOnce ==
  \A i, j \in 1..Len(dbSuggestions) :
     (/\ dbSuggestions[i].sugg = dbSuggestions[j].sugg
      /\ dbSuggestions[i].gen = dbSuggestions[j].gen) => i = j

\* C18: at every instant at most one session of the window is active: the
\* store holds at most one session record with status active, and it is the
\* session the window holds when that one is active.
C18_OneActiveSession ==
  /\ Cardinality({s \in dbSessions : s.status = "active"}) <= 1
  /\ currentSession.status = "active" =>
        \A s \in dbSessions : s.status = "active" => s.id = currentSession.id

\* C19: a screen-capture source that is not capturing and waits for no
\* permission prompt (it was never started, it was stopped, its stream ended
\* or its start failed) holds no display stream that is still live.
C19_StreamsReleased ==
  \A i \in {"win", "ovl"} :
     (~cap[i].isCapturing /\ cap[i].pending = 0) => cap[i].streams = 0

\* C20: when the store update of an endSession call fails, the call rejects
\* and the session is not finalized locally: currentSession and recentSessions
\* are as they were, and the window holds a completed session only when the
\* store has completed it.
C20_FailedEndNotFinalized ==
  /\ [](currentSession.status = "completed" => Completed(dbSessions, currentSession.id))
  /\ [][\A r \in endReqs \ endReqs' :
          /\ ~Completed(dbSessions', r.sid) =>
                endSettled' = [sid |-> r.sid, outcome |-> "rejected"]
          /\ endSettled'.outcome = "rejected" =>
                /\ currentSession' = currentSession
                /\ recentSessions' = recentSessions
                /\ dbSessions' = dbSessions]_vars

\* C20 witness: the end of the current session was rejected: the session is
\* stopped, and currentSession is still active, without endTime and duration,
\* and no session is in recentSessions
C20_Witness ==
  /\ endSettled = [sid |-> currentSession.id, outcome |-> "rejected"]
  /\ currentSession.status = "active"
  /\ currentSession.endTime = NULL /\ currentSession.duration = NULL
  /\ sessionStartTime = NULL
  /\ recentSessions = <<>>
  /\ endReqs = {}

\* C21: a denied permission is confined to its source.  When the microphone
\* is denied, the audio source gets its error and nothing else changes: the
\* screen captures, their pending prompts and the session are as they were.
\* When the display is denied to a capture instance, that instance is not
\* capturing, and the microphone, the other instance and the session are as
\* they were.
C21_FailureConfined ==
  [][/\ MicDenied =>
          /\ audioError'
          /\ isRecording' = isRecording /\ recorder' = recorder
          /\ cap' = cap
          /\ sessionStartTime' = sessionStartTime
          /\ currentSession' = currentSession /\ dbSessions' = dbSessions
     /\ \A i \in {"win", "ovl"} : DisplayDenied(i) =>
          /\ ~cap'[i].isCapturing
          /\ cap'[i].streams = cap[i].streams
          /\ \A j \in {"win", "ovl"} \ {i} : cap'[j] = cap[j]
          /\ isRecording' = isRecording /\ recorder' = recorder
          /\ micReqs' = micReqs /\ audioError' = audioError
          /\ sessionStartTime' = sessionStartTime
          /\ currentSession' = currentSession /\ dbSessions' = dbSessions]_vars

\* C21 witness: the microphone was denied, and the window's screen capture
\* has started all the same in a session that is still active
C21_Witness ==
  /\ audioError /\ ~isRecording /\ recorder = "none" /\ micReqs = 0
  /\ cap["win"].isCapturing /\ cap["win"].streams > 0
  /\ sessionStartTime # NULL
  /\ currentSession.status = "active"

\* C22: while a session is active, the analytics record of that session counts
\* the suggestions generated: a step that adds suggestions to the list adds
\* as many to the record's totalSuggestions.
C22_AnalyticsCounts ==
  [][(sessionStartTime # NULL /\ currentSession.status = "active") =>
        \A a \in dbAnalytics, b \in dbAnalytics' :
           (a.sid = currentSession.id /\ b.sid = a.sid) =>
              b.totalSuggestions =
                 a.totalSuggestions + Len(suggestions') - Len(suggestions)]_vars

\* the overlay's source has delivered a frame every 3 s since its first one
SteadyFrames ==
  LET f == cap["ovl"].frames
  IN /\ f # <<>>
     /\ \A k \in 1..Len(f) : f[k] = f[1] + CAPTURE_EVERY_S * (k - 1)
     /\ now < f[Len(f)] + CAPTURE_EVERY_S

\* C23: while screen analysis is active and the source delivers a frame every
\* 3 s, an analysis request has been issued by the tick once 10 s have
\* passed since the first frame (no analysis was made before, so more than
\* 8 s have passed since the last one).
C23_TickFires ==
  (/\ IsActive(showScreenAnalysis, sessionStartTime)
   /\ cap["ovl"].isCapturing
   /\ SteadyFrames
   /\ now >= cap["ovl"].frames[1] + ANALYSIS_EVERY_S)
  => \E k \in 1..Len(visionLog) : visionLog[k].ev = "issued"

\* C24: a transcript update that takes the word count (the length of
\* transcript.split(' '), as the window counts it) to or past the next
\* multiple of 50 triggers a suggestion request.
C24_TriggersOnCrossing ==
  [][SplitLen(transcription) \div SUGGEST_EVERY < SplitLen(transcription') \div SUGGEST_EVERY
       => triggerCount' = triggerCount + 1]_vars

\* C25: once the session is stopped and no session call is pending, no
\* screen-capture interval is scheduled in either capture instance.
C25_NoTimerAfterStop ==
  (sessionStartTime = NULL /\ createReqs = {} /\ endReqs = {})
     => \A i \in {"win", "ovl"} : cap[i].timers = {}

\* C26: when a step adds feedback events to the history and none of them has
\* priority high or urgent, the active slot is as it was.
C26_LowerPriorityHistoryOnly ==
  [][(/\ Len(feedbacks') > Len(feedbacks)
      /\ \A k \in (Len(feedbacks) + 1)..Len(feedbacks') :
            feedbacks'[k].priority \notin {"high", "urgent"})
       => activeFeedback' = activeFeedback]_vars

\* C26 witness: a low or medium event was created after the event in the
\* active slot, which still holds that earlier event
C26_Witness ==
  /\ activeFeedback # NoFeedback
  /\ \E j, k \in 1..Len(feedbacks) :
        /\ j < k
        /\ feedbacks[j] = activeFeedback
        /\ feedbacks[k].priority \in {"low", "medium"}
        /\ feedbacks[k].id > 0

\* C27: dismissed is terminal.  An event of the history that is dismissed is
\* dismissed after every step, and the active slot only ever takes an event
\* at its creation: when the slot changes it is emptied or holds the event
\* the step has just appended, which is not dismissed.
C27_DismissedIsTerminal ==
  [][/\ \A k \in 1..Len(feedbacks) :
          feedbacks[k].dismissed => (k <= Len(feedbacks') /\ feedbacks'[k].dismissed)
     /\ activeFeedback' # activeFeedback =>
          \/ activeFeedback' = NoFeedback
          \/ /\ Len(feedbacks') = Len(feedbacks) + 1
             /\ activeFeedback' = feedbacks'[Len(feedbacks')]
             /\ ~activeFeedback'.dismissed]_vars

\* C27 witness: the first event was dismissed, a later event was created and
\* became active: the first one is still dismissed and the slot holds the
\* later event
C27_Witness ==
  /\ Len(feedbacks) = 2
  /\ feedbacks[1].dismissed /\ ~feedbacks[2].dismissed
  /\ feedbacks[2].timestamp > feedbacks[1].timestamp
  /\ activeFeedback = feedbacks[2]

\* C28: the frame buffer of a screen capture holds at most 10 frames, in the
\* order of their arrival.
C28_AtMostTenFrames ==
  \A i \in {"win", "ovl"} :
     /\ Len(cap[i].frames) <= FRAMES_KEPT
     /\ \A j, k \in 1..Len(cap[i].frames) : j < k => cap[i].frames[j] < cap[i].frames[k]

\* C29: the analysis history holds at most 20 analyses, whether analyzeScreen
\* succeeds or fails.
C29_AtMostTwentyAnalyses == Len(analyses) <= ANALYSES_KEPT

(* C30: no two feedback events, no two visual analyses and no two
   suggestions share an id, also when the requests that made them return
   at the same instant of the clock. *)
UniqueIds(seq) == \A j, k \in 1..Len(seq) : j # k => seq[j].id # seq[k].id
C30_UniqueIds ==
  /\ UniqueIds(feedbacks)
  /\ UniqueIds(analyses)
  /\ UniqueIds(suggestions)

(* C31: when the inference call of generateSuggestion fails, the suggestion
   list is left as it was, nothing reaches the caller (the window, the
   session and the audio capture are untouched), no new request is issued,
   and isGenerating is false afterwards. *)
C31_FailureLeavesList ==
  [][\A g \in genReqs :
       GenReject(g) =>
         /\ suggestions' = suggestions
         /\ isGenerating' = FALSE
         /\ genReqs' = genReqs \ {g} /\ nextGenId' = nextGenId
         /\ UNCHANGED <<winVars, sessVars, audioVars>>]_vars

\* a call failed after an earlier one had produced suggestions
C31_Witness ==
  /\ genSettled.outcome = "rejected"
  /\ suggestions # <<>> /\ ~isGenerating /\ genReqs = {}

(* C32: when the inference call succeeds with a text that does not parse
   into a list, exactly one suggestion is appended, with the raw text as
   content, type note, priority medium and isUsed false, and every earlier
   suggestion is kept. *)
C32_FallbackAppended ==
  [][\A g \in genReqs :
       GenResolve(g, "raw", 1, TRUE) =>
         /\ Len(suggestions') = Len(suggestions) + 1
         /\ SubSeq(suggestions', 1, Len(suggestions)) = suggestions
         /\ LET f == suggestions'[Len(suggestions')]
            IN /\ f.content = "raw" /\ f.type = "note"
               /\ f.priority = "medium" /\ f.isUsed = FALSE]_vars

\* a fallback suggestion was appended behind earlier suggestions
C32_Witness ==
  /\ genSettled.outcome = "raw"
  /\ Len(suggestions) >= 2
  /\ suggestions[Len(suggestions)].content = "raw"
  /\ suggestions[Len(suggestions)].gen = genSettled.g

(* C33: no suggestion is ever removed from the list, nothing of a suggestion
   changes but its isUsed flag, the flag only goes from false to true, and it
   only does so in a markSuggestionUsed step. *)
SameSuggestion(x, y) ==
  /\ x.id = y.id /\ x.gen = y.gen /\ x.content = y.content /\ x.type = y.type
  /\ x.priority = y.priority /\ x.timestamp = y.timestamp
C33_KeptAndOnlyMarked ==
  [][/\ Len(suggestions') >= Len(suggestions)
     /\ \A k \in 1..Len(suggestions) :
          \E j \in 1..Len(suggestions') :
            /\ SameSuggestion(suggestions[k], suggestions'[j])
            /\ suggestions[k].isUsed => suggestions'[j].isUsed
            /\ suggestions[k].isUsed # suggestions'[j].isUsed
                 => MarkSuggestionUsed(suggestions[k].id)]_vars

\* a suggestion was marked as used while another one was not
C33_Witness ==
  /\ \E k \in 1..Len(suggestions) : suggestions[k].isUsed
  /\ \E k \in 1..Len(suggestions) : ~suggestions[k].isUsed

(* C39: getRecentSuggestions is read-only: a call returns the most recent
   suggestions, up to the limit, and leaves the stored list as it was, so
   the last element of the list stays the most recently added one. *)
C39_GetRecentReadOnly ==
  [][GetRecentSuggestions(RECENT_SHOWN) =>
       /\ suggestions' = suggestions
       /\ \A k \in 1..Len(suggestions') :
            suggestions'[k].timestamp <= suggestions'[Len(suggestions')].timestamp]_vars

(* C34: when a new session becomes the current one after an earlier session
   was stopped, the transcript, the suggestion list, the analysis history,
   the feedback history and the active slot hold nothing: whatever they
   would hold was produced before the new session. *)
C34_NothingCarriedOver ==
  [][(/\ currentSession.status = "completed"
      /\ currentSession'.status = "active"
      /\ currentSession'.id # currentSession.id)
       => /\ transcription' = <<>> /\ suggestions' = <<>>
          /\ analyses' = <<>> /\ feedbacks' = <<>>
          /\ activeFeedback' = NoFeedback]_vars

(* C35: whenever the totalSuggestions of the stored analytics records sum to
   more than 0, the successRate that getSessionStats returns is
   round(100 * sum(suggestionsUsed) / sum(totalSuggestions)) and the
   avgSuggestions is sum(totalSuggestions) / (number of records), rounded to
   one decimal (held here in tenths). *)
C35_RatesOfSums ==
  [][(GetSessionStatsResolve /\ SumTotalOrZero(dbAnalytics) > 0)
       => /\ stats'.successRate =
               RoundedRatio(SumUsedOrZero(dbAnalytics), SumTotalOrZero(dbAnalytics), 100)
          /\ stats'.avgSuggestions =
               RoundedRatio(SumTotalOrZero(dbAnalytics), Cardinality(dbAnalytics), 10)]_vars

(* C36: whenever the active slot holds an event, that event is in the
   feedback history and is not dismissed there. *)
C36_ActiveIsInHistory ==
  activeFeedback # NoFeedback =>
    \E k \in 1..Len(feedbacks) :
      /\ feedbacks[k].id = activeFeedback.id
      /\ feedbacks[k].timestamp = activeFeedback.timestamp
      /\ feedbacks[k].priority = activeFeedback.priority
      /\ ~feedbacks[k].dismissed

(* C37: isAnalyzing is true exactly while some vision request is in flight,
   and isGenerating exactly while some suggestion request is in flight,
   whatever the outcome of each request and also when requests overlap. *)
C37_FlagsAccurate ==
  /\ isAnalyzing <=> visionReqs # {}
  /\ isGenerating <=> genReqs # {}

(* C38: createSession is all-or-nothing: when one of its two store writes
   fails, currentSession is left as it was and the store holds no record
   with status active for that attempt. *)
C38_CreateAllOrNothing ==
  [][\A r \in createReqs :
       CreateSessionFailed(r) =>
         /\ currentSession' = currentSession
         /\ \A s \in dbSessions' : ~(s.id = r.id /\ s.status = "active")]_vars

====
